---- MODULE Spec2Model ----
(***************************************************************************)
(* FinGuard scanner bridge: the Go scanner service (scanner.go,            *)
(* s3scanner.go) and the scanner restart logic of the Node.js backend      *)
(* (POST /api/config, RELEASE_NOTES_v1.1.0.md).                            *)
(*                                                                         *)
(* A scanner process is created by spawning ./scanner with an environment; *)
(* main() builds one SDK client (the backend session) and serves /scan,    *)
(* /health and /s3/scan on :3001 with it.  A reconfiguration kills the     *)
(* running scanner process and spawns a new one.                           *)
(***************************************************************************)
EXTENDS Integers, Sequences, FiniteSets, TLC

\* ------------------------------------------------------------------ bounds
MaxProcs == 3      \* scanner processes ever spawned (1 at start + restarts)
MaxList == 2       \* longest malware / foundMalwares array in a payload
MaxCount == 1      \* largest malwareCount a payload carries
MaxTime == 1       \* clock ticks (seconds) observed
MaxReqs == 2       \* HTTP requests the scanner service holds at once
MaxSize == 2       \* largest object in the object store, in bytes

\* ------------------------------------------------------- options (Go nil)
None == <<>>
Some(x) == <<x>>
IsSome(o) == o # <<>>
Get(o) == o[1]

\* ------------------------------------------------------------ environment
ExternalAddrs == {"", "10.10.21.201:50051"}
ApiKeys == {"", "api-key"}
Regions == {"", "eu-1"}
CustomTagLists == {<<>>, << <<"team", "sec">> >>}

\* getEnv(key, defaultValue)
getEnv(value, defaultValue) == IF value = "" THEN defaultValue ELSE value

\* getCustomTags(): FSS_CUSTOM_TAGS is held as its comma-separated segments;
\* the empty variable yields the empty list.
getCustomTags(segments) == IF segments = <<>> THEN <<>> ELSE segments

\* ------------------------------------------------------ backend payloads
MalwareNames == {"EICAR", "Trojan"}

\* One element of a malware array: a map carrying a string name, or an
\* element from which no string name can be read.
Entries == {[name |-> None]} \cup {[name |-> Some(n)] : n \in MalwareNames}

RECURSIVE ListsUpTo(_)
ListsUpTo(n) ==
    IF n = 0 THEN {<<>>}
    ELSE LET shorter == ListsUpTo(n - 1)
         IN  shorter \cup {Append(l, e) : l \in {s \in shorter : Len(s) = n - 1}, e \in Entries}

EntryLists == ListsUpTo(MaxList)

\* result.atse of a parsed payload: malwareCount and malware may be absent.
AtseShapes ==
    [malwareCount : {None} \cup {Some(c) : c \in 0..MaxCount},
     malware : {None} \cup {Some(l) : l \in EntryLists}]

\* A raw scan result string, described by what json.Unmarshal finds in it.
ParsedPayloads ==
    [parses : {TRUE}, raw : {"{json}"},
     atse : {None} \cup {Some(a) : a \in AtseShapes},
     foundMalwares : {None} \cup {Some(l) : l \in EntryLists}]

GarbagePayloads ==
    [parses : {FALSE}, raw : {"", "<html>"}, atse : {None}, foundMalwares : {None}]

Payloads == ParsedPayloads \cup GarbagePayloads

\* the payload the handler holds when the SDK call returned an error
NoResult == [parses |-> FALSE, raw |-> "", atse |-> None, foundMalwares |-> None]

\* ------------------------------------------------- /scan result parsing
\* tags appended for the elements of one array that carry a string name
MalwareNameTags(list) ==
    LET named == SelectSeq(list, LAMBDA e : IsSome(e.name))
    IN  [i \in 1..Len(named) |-> <<"malware_name", Get(named[i].name)>>]

\* result.atse.malwareCount is a number > 0
NestedIndicates(scanData) ==
    /\ IsSome(scanData.atse)
    /\ IsSome(Get(scanData.atse).malwareCount)
    /\ Get(Get(scanData.atse).malwareCount) > 0

\* names read from result.atse.malware, whatever malwareCount says
NestedTags(scanData) ==
    IF IsSome(scanData.atse) /\ IsSome(Get(scanData.atse).malware)
    THEN MalwareNameTags(Get(Get(scanData.atse).malware))
    ELSE <<>>

\* foundMalwares is an array with at least one element
LegacyIndicates(scanData) ==
    IsSome(scanData.foundMalwares) /\ Len(Get(scanData.foundMalwares)) > 0

LegacyTags(scanData) ==
    IF LegacyIndicates(scanData)
    THEN MalwareNameTags(Get(scanData.foundMalwares))
    ELSE <<>>

\* mutation: the legacy list is an else-branch of the nested path
ParseScanResultElseBranch(scanResult, tags) ==
    IF ~scanResult.parses
    THEN [isSafe |-> TRUE, tags |-> tags]
    ELSE IF NestedIndicates(scanResult)
         THEN [isSafe |-> FALSE, tags |-> tags \o NestedTags(scanResult)]
         ELSE [isSafe |-> ~LegacyIndicates(scanResult),
               tags |-> tags \o NestedTags(scanResult) \o LegacyTags(scanResult)]

\* mutation: a payload that does not parse is reported unsafe
ParseScanResultFailClosed(scanResult, tags) ==
    IF ~scanResult.parses
    THEN [isSafe |-> FALSE, tags |-> tags]
    ELSE [isSafe |-> ~(NestedIndicates(scanResult) \/ LegacyIndicates(scanResult)),
          tags |-> tags \o NestedTags(scanResult) \o LegacyTags(scanResult)]

\* isSafe and the tags after the parsing block of the /scan handler
ParseScanResult(scanResult, tags) ==
    IF ~scanResult.parses
    THEN [isSafe |-> TRUE, tags |-> tags]
    ELSE [isSafe |-> ~(NestedIndicates(scanResult) \/ LegacyIndicates(scanResult)),
          tags |-> tags \o NestedTags(scanResult) \o LegacyTags(scanResult)]


\* ------------------------------------------------------- backend session
\* The SDK client built by main(): the backend identity and the toggles the
\* Set* calls of the /scan handler change.
NewSession(mode, address, useTLS, apiKey, region) ==
    [mode |-> mode, address |-> address, useTLS |-> useTLS, apiKey |-> apiKey,
     region |-> region,
     digest |-> TRUE, pml |-> FALSE, feedback |-> FALSE, verbose |-> FALSE,
     activeContent |-> FALSE]

\* the fields of a session that name its backend
BackendOf(c) ==
    [mode |-> c.mode, address |-> c.address, useTLS |-> c.useTLS,
     apiKey |-> c.apiKey, region |-> c.region]

\* the environment a scanner process is spawned with
ProcEnvs ==
    [FSS_API_KEY : ApiKeys, FSS_REGION : Regions,
     SCANNER_EXTERNAL_ADDR : ExternalAddrs, SCANNER_USE_TLS : {"true", "false"},
     FSS_CUSTOM_TAGS : CustomTagLists]

NoEnv ==
    [FSS_API_KEY |-> "", FSS_REGION |-> "", SCANNER_EXTERNAL_ADDR |-> "",
     SCANNER_USE_TLS |-> "false", FSS_CUSTOM_TAGS |-> <<>>]

\* mutation: the cloud credential wins over the external address
CreateClientCloudFirst(e, sdkOk) ==
    LET apiKey == e.FSS_API_KEY
        region == getEnv(e.FSS_REGION, "us-1")
        externalAddr == e.SCANNER_EXTERNAL_ADDR
        useTLS == (e.SCANNER_USE_TLS = "true")
    IN  IF apiKey # ""
        THEN [fatal |-> ~sdkOk, endpoint |-> region,
              client |-> IF sdkOk THEN Some(NewSession("Cloud", "", FALSE, apiKey, region))
                         ELSE None]
        ELSE IF externalAddr = ""
        THEN [fatal |-> TRUE, client |-> None, endpoint |-> ""]
        ELSE [fatal |-> ~sdkOk, endpoint |-> externalAddr,
              client |-> IF sdkOk THEN Some(NewSession("External", externalAddr, useTLS, "", ""))
                         ELSE None]

\* mutation: cloud mode is entered without checking the credential
CreateClientNoKeyCheck(e, sdkOk) ==
    LET apiKey == e.FSS_API_KEY
        region == getEnv(e.FSS_REGION, "us-1")
        externalAddr == e.SCANNER_EXTERNAL_ADDR
        useTLS == (e.SCANNER_USE_TLS = "true")
    IN  IF externalAddr # ""
        THEN [fatal |-> ~sdkOk, endpoint |-> externalAddr,
              client |-> IF sdkOk THEN Some(NewSession("External", externalAddr, useTLS, "", ""))
                         ELSE None]
        ELSE [fatal |-> ~sdkOk, endpoint |-> region,
              client |-> IF sdkOk THEN Some(NewSession("Cloud", "", FALSE, apiKey, region))
                         ELSE None]

\* main(): the client and endpoint chosen from the environment; fatal when
\* log.Fatal / log.Fatalf ends the process.  sdkOk: the SDK constructor
\* returned no error.
CreateClient(e, sdkOk) ==
    LET apiKey == e.FSS_API_KEY
        region == getEnv(e.FSS_REGION, "us-1")
        externalAddr == e.SCANNER_EXTERNAL_ADDR
        useTLS == (e.SCANNER_USE_TLS = "true")
    IN  IF externalAddr # ""
        THEN [fatal |-> ~sdkOk, endpoint |-> externalAddr,
              client |-> IF sdkOk THEN Some(NewSession("External", externalAddr, useTLS, "", ""))
                         ELSE None]
        ELSE IF apiKey = ""
        THEN [fatal |-> TRUE, client |-> None, endpoint |-> ""]
        ELSE [fatal |-> ~sdkOk, endpoint |-> region,
              client |-> IF sdkOk THEN Some(NewSession("Cloud", "", FALSE, apiKey, region))
                         ELSE None]

\* ------------------------------------------------------------ file names
Filenames == {"", "dir/eicar.com"}
FilePaths == {"", "/tmp/upload"}

\* filepath.Base and filepath.Ext on the names the model uses
Base(filename) ==
    CASE filename = "dir/eicar.com" -> "eicar.com"
      [] filename = "unknown" -> "unknown"
      [] OTHER -> "."

Ext(filename) ==
    CASE filename = "dir/eicar.com" -> ".com"
      [] OTHER -> ""

\* --------------------------------------------------------------- requests
ScanRequests ==
    [method : {"POST", "GET"}, filename : Filenames, scanMethod : {"", "file"},
     filePath : FilePaths, digestEnabled : {"", "false"}, pmlEnabled : {"", "true"},
     spnFeedbackEnabled : {"", "true"}, verboseEnabled : {"", "true"},
     activeContentEnabled : {"", "true"}, bodyOk : BOOLEAN]

S3Requests ==
    [method : {"POST", "GET"}, bodyOk : BOOLEAN, bucket : {"bkt"}, key : {"obj"},
     region : {"us-east-1"},
     tags : {None, Some(<<>>), Some(<< <<"owner", "ops">> >>)}]


\* ----------------------------------------------------------------- state
VARIABLES
    containerEnv,   \* process.env of the Node.js backend (fixed at container start)
    systemConfig,   \* server.js systemConfig: externalScannerAddr, externalScannerTLS
    procs,          \* scanner processes by pid: state, environment, client, endpoint
    applyPc,        \* POST /api/config restart logic: idle, kill, spawn, wait
    reqs,           \* HTTP requests to the scanner service, by connection slot
    now,            \* wall clock, in seconds
    probe,          \* POST /api/test-scanner: the connection test in progress
    object          \* the bytes of the object s3://bkt/obj in the object store

vars == <<containerEnv, systemConfig, procs, applyPc, reqs, now, probe, object>>

Pids == 1..MaxProcs
Slots == 1..MaxReqs

Unborn == [state |-> "unborn", env |-> NoEnv, client |-> None, endpoint |-> "",
           customTags |-> <<>>]

\* what the SDK has got from the reader of a request: the last DataSize
\* result and the last ReadBytes call with its result
NoFetch == [size |-> None, read |-> None]

\* attr: what the object store answered; sent: the last SDK call made; calls:
\* the number of SDK calls made; ret: what the SDK call returned
IdleReq == [pc |-> "idle", kind |-> "none", pid |-> 0, req |-> None,
            identifier |-> None, tags |-> <<>>, attr |-> None, sent |-> None,
            calls |-> 0, fetched |-> NoFetch, ret |-> None, resp |-> None]

\* remote: how the tested address behaves; elapsed: seconds since the test
\* process was spawned; session: the client of the test process
IdleProbe == [pc |-> "idle", candidate |-> None, remote |-> "none", elapsed |-> 0,
              session |-> None, observed |-> "", result |-> None]

Alive(p) == p.state \in {"starting", "serving"}

\* the sessions scans observe: the client of a process serving on :3001
ActiveSessions == {pid \in Pids : procs[pid].state = "serving"}

\* the last process spawned
LastPid == CHOOSE pid \in Pids :
              /\ procs[pid].state # "unborn"
              /\ \A q \in Pids : q > pid => procs[q].state = "unborn"

\* the environments a container is started with (TLS is switched on later,
\* by a reconfiguration)
ContainerEnvs ==
    {e \in ProcEnvs : /\ (e.FSS_REGION = "") = (e.FSS_CUSTOM_TAGS = <<>>)
                      /\ e.SCANNER_USE_TLS = "false"}

Init ==
    /\ containerEnv \in ContainerEnvs
    /\ systemConfig = [externalScannerAddr |-> containerEnv.SCANNER_EXTERNAL_ADDR,
                       externalScannerTLS |-> (containerEnv.SCANNER_USE_TLS = "true")]
    /\ procs = [pid \in Pids |->
                  IF pid = 1
                  THEN [Unborn EXCEPT !.state = "starting", !.env = containerEnv]
                  ELSE Unborn]
    /\ applyPc = "idle"
    /\ reqs = [r \in Slots |-> IdleReq]
    /\ now = 0
    /\ probe = IdleProbe
    /\ object = <<>>

\* ------------------------------------------------------------- main()
\* http.ListenAndServe(":3001") fails while another process holds the port
PortFree(ps, pid) == \A q \in DOMAIN ps : q # pid => ps[q].state # "serving"

\* main() of process pid, from its environment to startHTTPServer listening:
\* the log file is opened, the client is created, the server is started.
Main(pid, logOk, sdkOk) ==
    /\ procs[pid].state = "starting"
    /\ LET made == CreateClient(procs[pid].env, sdkOk)
           up == logOk /\ ~made.fatal /\ PortFree(procs, pid)
       IN  procs' = [procs EXCEPT ![pid] =
                        [state |-> IF up THEN "serving" ELSE "exited",
                         env |-> procs[pid].env,
                         client |-> IF logOk THEN made.client ELSE None,
                         endpoint |-> IF logOk THEN made.endpoint ELSE "",
                         customTags |-> getCustomTags(procs[pid].env.FSS_CUSTOM_TAGS)]]
    /\ UNCHANGED <<containerEnv, systemConfig, applyPc, reqs, now, probe, object>>

\* ------------------------------------------------- POST /api/config
\* mutation: pkill leaves the running scanner alive
KillNothing(ps) == ps

\* execSync('pkill -f "./scanner"'): every live scanner process ends
KillScanner(ps) ==
    [pid \in DOMAIN ps |->
        IF Alive(ps[pid]) THEN [ps[pid] EXCEPT !.state = "killed"] ELSE ps[pid]]

\* requests held by processes that ended get no response
DropRequests(rs, ps) ==
    [r \in DOMAIN rs |->
        IF rs[r].pc \in {"received", "calling"} /\ ~Alive(ps[rs[r].pid])
        THEN [rs[r] EXCEPT !.pc = "aborted"]
        ELSE rs[r]]

\* mutation: the new process is given the environment of the container
ScannerEnvStale(penv, cfg) == penv

\* scannerEnv = {...process.env, SCANNER_EXTERNAL_ADDR, SCANNER_USE_TLS}
ScannerEnv(penv, cfg) ==
    [penv EXCEPT !.SCANNER_EXTERNAL_ADDR = cfg.externalScannerAddr,
                 !.SCANNER_USE_TLS = IF cfg.externalScannerTLS THEN "true" ELSE "false"]

\* mutation: the restart rewrites the session of the process it replaces
SpawnInPlace(ps, pid, e) ==
    [q \in DOMAIN ps |->
        IF q = pid THEN [Unborn EXCEPT !.state = "starting", !.env = e]
        ELSE IF IsSome(ps[q].client)
        THEN [ps[q] EXCEPT !.client =
                 Some([Get(ps[q].client) EXCEPT !.address = e.SCANNER_EXTERNAL_ADDR,
                                                !.mode = "Rewritten"])]
        ELSE ps[q]]

\* spawn('./scanner', [], {env: scannerEnv, detached: true})
SpawnScanner(ps, pid, e) ==
    [ps EXCEPT ![pid] = [Unborn EXCEPT !.state = "starting", !.env = e]]

\* the handler stores the submitted external scanner settings and sets
\* needsScannerRestart when they changed; a request may arrive while an
\* earlier one is still in its wait
ApplyConfig(addr, tls) ==
    /\ applyPc \in {"idle", "wait"}
    /\ LET new == [externalScannerAddr |-> addr, externalScannerTLS |-> tls]
           needsScannerRestart == new # systemConfig
       IN  /\ needsScannerRestart => \E pid \in Pids : procs[pid].state = "unborn"
           /\ systemConfig' = new
           /\ applyPc' = IF needsScannerRestart THEN "kill" ELSE applyPc
    /\ UNCHANGED <<containerEnv, procs, reqs, now, probe, object>>

ApplyKill ==
    /\ applyPc = "kill"
    /\ procs' = KillScanner(procs)
    /\ reqs' = DropRequests(reqs, procs')
    /\ applyPc' = "spawn"
    /\ UNCHANGED <<containerEnv, systemConfig, now, probe, object>>

ApplySpawn ==
    /\ applyPc = "spawn"
    /\ procs' = SpawnScanner(procs, LastPid + 1, ScannerEnv(containerEnv, systemConfig))
    /\ applyPc' = "wait"
    /\ UNCHANGED <<containerEnv, systemConfig, reqs, now, probe, object>>

\* await new Promise(resolve => setTimeout(resolve, 2000))
ApplyWait ==
    /\ applyPc = "wait"
    /\ applyPc' = "idle"
    /\ UNCHANGED <<containerEnv, systemConfig, procs, reqs, now, probe, object>>


\* ------------------------------------------------------------ responses
\* http.Error(w, message, status): a failure, carrying no verdict
HttpError(status, message) == [status |-> status, error |-> message]

\* ---------------------------------------------------------- POST /scan
FilenameOf(q) == IF q.filename = "" THEN "unknown" ELSE q.filename
ScanMethodOf(q) == IF q.scanMethod = "" THEN "buffer" ELSE q.scanMethod

\* the Set* calls the handler makes on the shared client
SetToggles(c, q) ==
    [c EXCEPT !.digest = IF q.digestEnabled = "false" THEN FALSE ELSE c.digest,
              !.pml = IF q.pmlEnabled = "true" THEN TRUE ELSE c.pml,
              !.feedback = IF q.spnFeedbackEnabled = "true" THEN TRUE ELSE c.feedback,
              !.verbose = IF q.verboseEnabled = "true" THEN TRUE ELSE c.verbose,
              !.activeContent = IF q.activeContentEnabled = "true" THEN TRUE
                                ELSE c.activeContent]

\* time.Now().Format("20060102150405") + "-" + filepath.Base(filename)
Identifier(t, filename) == <<t, Base(filename)>>

\* the initial tags, key=value, followed by the custom tags
InitialTags(q, customTags) ==
    << <<"app", "finguard">>,
       <<"file_type", Ext(FilenameOf(q))>>,
       <<"scan_method", ScanMethodOf(q)>>,
       <<"ml_enabled", q.pmlEnabled>>,
       <<"spn_feedback", q.spnFeedbackEnabled>>,
       <<"active_content", q.activeContentEnabled>> >> \o customTags

\* the handler up to the choice of the scan method: the method check, the
\* headers, the toggles, the identifier and the tags
ScanReceive(r, pid, q) ==
    /\ reqs[r].pc \in {"idle", "done", "aborted"}
    /\ procs[pid].state = "serving"
    /\ IF q.method # "POST"
       THEN /\ reqs' = [reqs EXCEPT ![r] =
                  [IdleReq EXCEPT !.pc = "done", !.kind = "scan", !.pid = pid,
                                  !.req = Some(q),
                                  !.resp = Some(HttpError(405, "Method not allowed"))]]
            /\ procs' = procs
       ELSE /\ reqs' = [reqs EXCEPT ![r] =
                  [IdleReq EXCEPT !.pc = "received", !.kind = "scan", !.pid = pid,
                                  !.req = Some(q),
                                  !.identifier = Some(Identifier(now, FilenameOf(q))),
                                  !.tags = InitialTags(q, procs[pid].customTags)]]
            /\ procs' = [procs EXCEPT ![pid].client =
                            Some(SetToggles(Get(procs[pid].client), q))]
    /\ UNCHANGED <<containerEnv, systemConfig, applyPc, now, probe, object>>

\* mutation: the error of reading the body is not looked at
ReadAllIgnoringErr(q) == [err |-> FALSE]

\* data, err := io.ReadAll(r.Body)
ReadAll(q) == [err |-> ~q.bodyOk]

\* mutation: the method flag alone selects the file method
UsesFileByFlag(q) == ScanMethodOf(q) = "file"

\* if scanMethod == "file" && filePath != ""
UsesFile(q) == ScanMethodOf(q) = "file" /\ q.filePath # ""

\* the SDK call the handler makes, or the 400 when the body cannot be read
ScanCall(r) ==
    /\ reqs[r].pc = "received"
    /\ reqs[r].kind = "scan"
    /\ LET q == Get(reqs[r].req)
           c == Get(procs[reqs[r].pid].client)
       IN  reqs' = [reqs EXCEPT ![r] =
              IF UsesFile(q)
              THEN [@ EXCEPT !.pc = "calling", !.calls = @ + 1,
                             !.sent = Some([call |-> "ScanFile", target |-> q.filePath,
                                            tags |-> reqs[r].tags, session |-> c])]
              ELSE IF ReadAll(q).err
              THEN [@ EXCEPT !.pc = "done",
                             !.resp = Some(HttpError(400, "Failed to read request body"))]
              ELSE [@ EXCEPT !.pc = "calling", !.calls = @ + 1,
                             !.sent = Some([call |-> "ScanBuffer",
                                            target |-> Get(reqs[r].identifier),
                                            tags |-> reqs[r].tags, session |-> c])]]
    /\ UNCHANGED <<containerEnv, systemConfig, procs, applyPc, now, probe, object>>

\* mutation: a failed SDK call sends the handler back to the call
AfterCallRetry(err) == IF err THEN "received" ELSE "done"

\* where the handler is once the SDK call has returned: it has written the
\* 500 and returned, or it has written the response
AfterCall(err) == "done"

\* what the SDK call returns: an error, or a raw scan result
CallOutcomes(payloads) ==
    {[err |-> TRUE, scanResult |-> NoResult]}
        \cup {[err |-> FALSE, scanResult |-> p] : p \in payloads}

\* mutation: the error of the SDK call is not looked at
ScanResponseIgnoringErr(err, scanResult, identifier, tags) ==
    LET parsed == ParseScanResult(scanResult, tags)
    IN  [status |-> 200, isSafe |-> parsed.isSafe, message |-> scanResult,
         scanId |-> identifier, tags |-> parsed.tags, detections |-> scanResult]

\* the handler after the SDK call: the 500, or the ScanResponse
ScanResponse(err, scanResult, identifier, tags) ==
    IF err
    THEN HttpError(500, "Scanning failed")
    ELSE LET parsed == ParseScanResult(scanResult, tags)
         IN  [status |-> 200, isSafe |-> parsed.isSafe, message |-> scanResult,
              scanId |-> identifier, tags |-> parsed.tags, detections |-> scanResult]

ScanReturn(r, out) ==
    /\ reqs[r].pc = "calling"
    /\ reqs[r].kind = "scan"
    /\ reqs' = [reqs EXCEPT ![r].pc = AfterCall(out.err), ![r].ret = Some(out),
                            ![r].resp = Some(ScanResponse(out.err, out.scanResult,
                                                          Get(reqs[r].identifier),
                                                          reqs[r].tags))]
    /\ UNCHANGED <<containerEnv, systemConfig, procs, applyPc, now, probe, object>>

\* ------------------------------------------------------- POST /s3/scan
\* what GetObjectAttributes answers: an error, or an object size (or none)
ObjectAttrs == {[err |-> TRUE, ObjectSize |-> None],
                [err |-> FALSE, ObjectSize |-> None],
                [err |-> FALSE, ObjectSize |-> Some(10)]}

\* NewS3ClientReader: the reader with its size, or an error
NewS3ClientReader(q, attr) ==
    IF attr.err \/ ~IsSome(attr.ObjectSize)
    THEN [err |-> TRUE, reader |-> None]
    ELSE [err |-> FALSE,
          reader |-> Some([bucket |-> q.bucket, key |-> q.key,
                           size |-> Get(attr.ObjectSize)])]

\* tags := req.Tags, with "source:s3" appended
S3Tags(q) ==
    IF ~IsSome(q.tags) THEN << <<"source:s3">> >>
    ELSE Append(Get(q.tags), <<"source:s3">>)

\* the handler up to the ScanReader call
S3Receive(r, pid, q, attr) ==
    /\ reqs[r].pc \in {"idle", "done", "aborted"}
    /\ procs[pid].state = "serving"
    /\ LET made == NewS3ClientReader(q, attr)
           base == [IdleReq EXCEPT !.kind = "s3", !.pid = pid, !.req = Some(q),
                                   !.attr = IF q.method = "POST" /\ q.bodyOk
                                            THEN Some(attr) ELSE None]
       IN  reqs' = [reqs EXCEPT ![r] =
              IF q.method # "POST"
              THEN [base EXCEPT !.pc = "done",
                                !.resp = Some(HttpError(405, "Method not allowed"))]
              ELSE IF ~q.bodyOk
              THEN [base EXCEPT !.pc = "done",
                                !.resp = Some(HttpError(400, "Invalid request"))]
              ELSE IF made.err
              THEN [base EXCEPT !.pc = "done",
                                !.resp = Some(HttpError(500, "Failed to create S3 reader"))]
              ELSE [base EXCEPT !.pc = "calling", !.tags = S3Tags(q), !.calls = 1,
                                !.sent = Some([call |-> "ScanReader",
                                               target |-> Get(made.reader),
                                               tags |-> S3Tags(q),
                                               session |-> Get(procs[pid].client)])]]
    /\ UNCHANGED <<containerEnv, systemConfig, procs, applyPc, now, probe, object>>

\* the handler after ScanReader: the 500, or the raw result with the location
S3Response(err, scanResult, q) ==
    IF err
    THEN HttpError(500, "Scan failed")
    ELSE [status |-> 200, scanResult |-> scanResult, bucket |-> q.bucket,
          key |-> q.key, region |-> q.region]

S3Return(r, out) ==
    /\ reqs[r].pc = "calling"
    /\ reqs[r].kind = "s3"
    /\ reqs' = [reqs EXCEPT ![r].pc = AfterCall(out.err), ![r].ret = Some(out),
                            ![r].resp = Some(S3Response(out.err, out.scanResult,
                                                        Get(reqs[r].req)))]
    /\ UNCHANGED <<containerEnv, systemConfig, procs, applyPc, now, probe, object>>

\* ----------------------------------------------- S3ClientReader methods
\* The calls the SDK makes on the reader while ScanReader runs, and the
\* object store they reach.
Bytes == {0, 1}
ObjectContents == UNION {[1..n -> Bytes] : n \in 0..MaxSize}
Offsets == 0..MaxSize
Lengths == 1..(MaxSize + 1)

\* GetObjectAttributes on the object as it is now
StoreAttributes(obj) == [err |-> FALSE, ObjectSize |-> Some(Len(obj))]

\* GetObject with Range: bytes=first-last. The store answers the bytes of the
\* range that exist, and an error when the range starts past the end or the
\* request fails.
GetObject(obj, first, last, storeOk) ==
    IF ~storeOk \/ first >= Len(obj)
    THEN [err |-> TRUE, body |-> <<>>]
    ELSE [err |-> FALSE,
          body |-> SubSeq(obj, first + 1, IF last + 1 < Len(obj) THEN last + 1
                                          ELSE Len(obj))]

\* func (r *S3ClientReader) DataSize() (int64, error)
DataSize(reader) == reader.size

\* mutation: the range ends one byte later
ReadBytesInclusiveEnd(reader, obj, offset, length, storeOk) ==
    LET output == GetObject(obj, offset, offset + length, storeOk)
    IN  IF output.err THEN [bytes |-> <<>>, err |-> TRUE]
        ELSE [bytes |-> output.body, err |-> FALSE]

\* func (r *S3ClientReader) ReadBytes(offset int64, length int32) ([]byte, error)
ReadBytes(reader, obj, offset, length, storeOk) ==
    LET output == GetObject(obj, offset, offset + length - 1, storeOk)
    IN  IF output.err THEN [bytes |-> <<>>, err |-> TRUE]
        ELSE [bytes |-> output.body, err |-> FALSE]

\* another writer replaces the object
PutObject(content) ==
    /\ object # content
    /\ object' = content
    /\ UNCHANGED <<containerEnv, systemConfig, procs, applyPc, reqs, now, probe>>

\* mutation: the size is asked of the store at every call
SdkDataSizeLive(r) ==
    /\ reqs[r].pc = "calling"
    /\ reqs[r].kind = "s3"
    /\ reqs' = [reqs EXCEPT ![r].fetched.size = Some(Len(object))]
    /\ UNCHANGED <<containerEnv, systemConfig, procs, applyPc, now, probe, object>>

\* the SDK asks the reader for the size
SdkDataSize(r) ==
    /\ reqs[r].pc = "calling"
    /\ reqs[r].kind = "s3"
    /\ reqs' = [reqs EXCEPT ![r].fetched.size =
                    Some(DataSize(Get(reqs[r].sent).target))]
    /\ UNCHANGED <<containerEnv, systemConfig, procs, applyPc, now, probe, object>>

\* mutation: the reader keeps a cursor and reads from it
SdkReadBytesSeeking(r, offset, length, storeOk) ==
    /\ reqs[r].pc = "calling"
    /\ reqs[r].kind = "s3"
    /\ LET reader == Get(reqs[r].sent).target
           cursor == IF IsSome(reqs[r].fetched.read)
                     THEN Get(reqs[r].fetched.read).offset
                              + Get(reqs[r].fetched.read).length
                     ELSE 0
       IN  reqs' = [reqs EXCEPT
              ![r].sent = Some([Get(reqs[r].sent) EXCEPT
                                   !.target = [bucket |-> reader.bucket,
                                               key |-> reader.key,
                                               size |-> reader.size - cursor]]),
              ![r].fetched.read =
                  Some([offset |-> offset, length |-> length, storeOk |-> storeOk,
                        out |-> ReadBytes(reader, object, cursor, length, storeOk)])]
    /\ UNCHANGED <<containerEnv, systemConfig, procs, applyPc, now, probe, object>>

\* the SDK asks the reader for a range of the object
SdkReadBytes(r, offset, length, storeOk) ==
    /\ reqs[r].pc = "calling"
    /\ reqs[r].kind = "s3"
    /\ reqs' = [reqs EXCEPT ![r].fetched.read =
          Some([offset |-> offset, length |-> length, storeOk |-> storeOk,
                out |-> ReadBytes(Get(reqs[r].sent).target, object, offset, length,
                                  storeOk)])]
    /\ UNCHANGED <<containerEnv, systemConfig, procs, applyPc, now, probe, object>>

\* ------------------------------------------------------------ GET /health
\* mutation: the test of the client is inverted
HealthResponseInverted(p, t) ==
    [status |-> IF IsSome(p.client) THEN "unhealthy" ELSE "healthy",
     timestamp |-> t, customTags |-> p.customTags, apiEndpoint |-> p.endpoint]

HealthResponse(p, t) ==
    [status |-> IF IsSome(p.client) THEN "healthy" ELSE "unhealthy",
     timestamp |-> t, customTags |-> p.customTags, apiEndpoint |-> p.endpoint]

Health(r, pid) ==
    /\ reqs[r].pc \in {"idle", "done", "aborted"}
    /\ procs[pid].state = "serving"
    /\ reqs' = [reqs EXCEPT ![r] =
          [IdleReq EXCEPT !.pc = "done", !.kind = "health", !.pid = pid,
                          !.resp = Some(HealthResponse(procs[pid], now))]]
    /\ UNCHANGED <<containerEnv, systemConfig, procs, applyPc, now, probe, object>>

\* ------------------------------------------------------------------ time
\* The clock is read for identifiers and timestamps only; it advances in the
\* specifications that are about them.
Tick ==
    /\ now < MaxTime
    /\ now' = now + 1
    /\ UNCHANGED <<containerEnv, systemConfig, procs, applyPc, reqs, probe, object>>


\* ------------------------------------------------ POST /api/test-scanner
\* The connection test of the configuration page. Its handler is part of
\* server.js; it is modelled from its description (Test Process, Detection
\* Logic, Error Messages).
ProbeTimeout == 5

ProbeAddrs == {"", "bad-address", "10.10.21.201:50051"}

\* how the tested address behaves: a scanner listens, the port is closed, the
\* host cannot be reached, or nothing ever answers
Remotes == {"accepts", "refuses", "unreachable", "silent"}

\* Validation: checks address format (host:port)
ValidAddr(addr) == addr = "10.10.21.201:50051"

ProbeResponse(success, message) == [success |-> success, message |-> message]

\* what the output of the test process shows once the remote has answered
ScannerOutput(remote) ==
    CASE remote = "accepts" -> "Scanner started in External Scanner mode"
      [] remote = "refuses" -> "connection refused"
      [] remote = "unreachable" -> "no such host"
      [] OTHER -> ""

\* mutation: a refusal is reported as a timeout
DetectTimeoutOnly(observed, addr) ==
    IF observed = "Scanner started in External Scanner mode"
    THEN ProbeResponse(TRUE, <<"Successfully connected to external scanner at", addr>>)
    ELSE ProbeResponse(FALSE, <<"Connection timeout after 5 seconds">>)

\* Detection Logic and Error Messages: the response for what the output shows
Detect(observed, addr) ==
    CASE observed = "Scanner started in External Scanner mode" ->
            ProbeResponse(TRUE, <<"Successfully connected to external scanner at", addr>>)
      [] observed = "connection refused" ->
            ProbeResponse(FALSE, <<"Connection error: connection refused">>)
      [] observed = "no such host" ->
            ProbeResponse(FALSE, <<"Cannot reach scanner at", addr>>)
      [] OTHER -> ProbeResponse(FALSE, <<"Connection timeout after 5 seconds">>)

\* mutation: the test has no timeout
NeverExpired(elapsed) == FALSE

\* Timeout: 5-second timeout for connection attempt
Expired(elapsed) == elapsed >= ProbeTimeout

\* mutation: the test writes the tested settings into the configuration
TestScannerApplying(addr, tls, remote) ==
    /\ probe.pc \in {"idle", "done"}
    /\ ValidAddr(addr)
    /\ systemConfig' = [externalScannerAddr |-> addr, externalScannerTLS |-> tls]
    /\ probe' = [IdleProbe EXCEPT !.pc = "probing", !.remote = remote,
                    !.candidate = Some(systemConfig'),
                    !.session = CreateClient(ScannerEnv(containerEnv, systemConfig'),
                                             TRUE).client]
    /\ UNCHANGED <<containerEnv, procs, applyPc, reqs, now, object>>

\* the request: validation, then the temporary scanner process is spawned
\* with the tested settings and builds its client
TestScanner(addr, tls, remote) ==
    /\ probe.pc \in {"idle", "done"}
    /\ LET cand == [externalScannerAddr |-> addr, externalScannerTLS |-> tls]
       IN  probe' =
             IF addr = ""
             THEN [IdleProbe EXCEPT !.pc = "done", !.candidate = Some(cand),
                      !.result = Some(ProbeResponse(FALSE,
                                      <<"External scanner address is required">>))]
             ELSE IF ~ValidAddr(addr)
             THEN [IdleProbe EXCEPT !.pc = "done", !.candidate = Some(cand),
                      !.result = Some(ProbeResponse(FALSE, <<"Invalid address format">>))]
             ELSE [IdleProbe EXCEPT !.pc = "probing", !.candidate = Some(cand),
                      !.remote = remote,
                      !.session = CreateClient(ScannerEnv(containerEnv, cand),
                                               TRUE).client]
    /\ UNCHANGED <<containerEnv, systemConfig, procs, applyPc, reqs, now, object>>

\* the remote answers within the budget: the output is examined, the test
\* process is terminated, the response is sent
ProbeObserve ==
    /\ probe.pc = "probing"
    /\ probe.remote # "silent"
    /\ ~Expired(probe.elapsed)
    /\ probe' = [probe EXCEPT !.pc = "done", !.session = None,
                    !.observed = ScannerOutput(probe.remote),
                    !.result = Some(Detect(ScannerOutput(probe.remote),
                                           Get(probe.candidate).externalScannerAddr))]
    /\ UNCHANGED <<containerEnv, systemConfig, procs, applyPc, reqs, now, object>>

\* a second of the budget passes
ProbeTick ==
    /\ probe.pc = "probing"
    /\ probe.elapsed < ProbeTimeout
    /\ probe' = [probe EXCEPT !.elapsed = @ + 1]
    /\ UNCHANGED <<containerEnv, systemConfig, procs, applyPc, reqs, now, object>>

\* the budget is used up: the test process is terminated, the timeout is
\* reported
ProbeExpire ==
    /\ probe.pc = "probing"
    /\ Expired(probe.elapsed)
    /\ probe' = [probe EXCEPT !.pc = "done", !.session = None,
                    !.result = Some(Detect("", Get(probe.candidate).externalScannerAddr))]
    /\ UNCHANGED <<containerEnv, systemConfig, procs, applyPc, reqs, now, object>>

\* the administrator leaves the page before the response: the test process
\* is terminated, nobody reads the response
ProbeAbandon ==
    /\ probe.pc = "probing"
    /\ probe' = [probe EXCEPT !.pc = "done", !.session = None]
    /\ UNCHANGED <<containerEnv, systemConfig, procs, applyPc, reqs, now, object>>

\* the steps the test takes on its own once it has been started
ProbeProgress == ProbeObserve \/ ProbeTick \/ ProbeExpire


\* ------------------------------------------------------- specifications
\* Inputs of the service-lifecycle specification: one connection, a few
\* requests and payloads, every environment and every reconfiguration.
LifeScanRequests ==
    {q \in ScanRequests :
        /\ q.filename = "dir/eicar.com" /\ q.filePath = "/tmp/upload"
        /\ q.digestEnabled = "" /\ q.pmlEnabled = "" /\ q.spnFeedbackEnabled = ""
        /\ q.verboseEnabled = "" /\ q.activeContentEnabled = ""
        /\ (q.method = "GET" => q.bodyOk /\ q.scanMethod = "")
        /\ (q.scanMethod = "file" => q.bodyOk)}

LifeS3Requests ==
    {q \in S3Requests : q.tags = None /\ (q.method = "GET" => q.bodyOk)}

InfectedPayload ==
    [parses |-> TRUE, raw |-> "{json}",
     atse |-> Some([malwareCount |-> Some(1),
                    malware |-> Some(<<[name |-> Some("EICAR")]>>)]),
     foundMalwares |-> None]

LifePayloads == {InfectedPayload}

Next ==
    \/ \E pid \in Pids, logOk \in BOOLEAN, sdkOk \in BOOLEAN : Main(pid, logOk, sdkOk)
    \/ \E addr \in ExternalAddrs, tls \in BOOLEAN : ApplyConfig(addr, tls)
    \/ ApplyKill
    \/ ApplySpawn
    \/ ApplyWait
    \/ \E pid \in Pids, q \in LifeScanRequests : ScanReceive(1, pid, q)
    \/ ScanCall(1)
    \/ \E out \in CallOutcomes(LifePayloads) : ScanReturn(1, out)
    \/ \E pid \in Pids, q \in LifeS3Requests, attr \in ObjectAttrs :
          S3Receive(1, pid, q, attr)
    \/ \E out \in CallOutcomes(LifePayloads) : S3Return(1, out)
    \/ \E pid \in Pids : Health(1, pid)

Spec == Init /\ [][Next]_vars

\* Inputs of the scan specification: one service that is never reconfigured,
\* every request shape and every payload.
ScanEnvs ==
    {e \in ContainerEnvs :
        /\ e.FSS_API_KEY = "api-key"
        /\ (e.SCANNER_EXTERNAL_ADDR = "") = (e.FSS_CUSTOM_TAGS = <<>>)}

ScanInit == Init /\ containerEnv \in ScanEnvs

ScanSpecRequests ==
    {q \in ScanRequests :
        /\ q.filename = "dir/eicar.com" /\ q.filePath = "/tmp/upload"
        /\ q.digestEnabled = "" /\ q.pmlEnabled = "" /\ q.spnFeedbackEnabled = ""
        /\ q.verboseEnabled = "" /\ q.activeContentEnabled = ""}

ScanSpecS3Requests ==
    {q \in S3Requests : (q.method = "GET" \/ ~q.bodyOk) => q.tags = None}

ScanNext ==
    \/ \E pid \in Pids, logOk \in BOOLEAN, sdkOk \in BOOLEAN : Main(pid, logOk, sdkOk)
    \/ \E pid \in Pids, q \in ScanSpecRequests : ScanReceive(1, pid, q)
    \/ ScanCall(1)
    \/ \E out \in CallOutcomes(Payloads) : ScanReturn(1, out)
    \/ \E pid \in Pids, q \in ScanSpecS3Requests, attr \in ObjectAttrs :
          S3Receive(1, pid, q, attr)
    \/ \E out \in CallOutcomes(Payloads) : S3Return(1, out)

ScanSpec == ScanInit /\ [][ScanNext]_vars

\* Inputs of the options specification: one service that is never
\* reconfigured, well-formed /scan requests with every combination of the
\* option headers, the method flag and the file path.
OptionRequests ==
    {q \in ScanRequests :
        q.method = "POST" /\ q.bodyOk /\ q.filename = "dir/eicar.com"}

OptionNext ==
    \/ \E pid \in Pids, logOk \in BOOLEAN, sdkOk \in BOOLEAN : Main(pid, logOk, sdkOk)
    \/ \E pid \in Pids, q \in OptionRequests : ScanReceive(1, pid, q)
    \/ ScanCall(1)
    \/ \E out \in CallOutcomes(LifePayloads) : ScanReturn(1, out)

OptionSpec == ScanInit /\ [][OptionNext]_vars

\* The reader specification: streaming scans of one object that another
\* writer may replace at any time, with the calls the SDK makes on the
\* reader during the scan.
ReaderRequests ==
    {q \in S3Requests : q.method = "POST" /\ q.bodyOk /\ q.tags = None}

ReaderNext ==
    \/ \E pid \in Pids, logOk \in BOOLEAN, sdkOk \in BOOLEAN : Main(pid, logOk, sdkOk)
    \/ \E content \in ObjectContents : PutObject(content)
    \/ \E pid \in Pids, q \in ReaderRequests :
          S3Receive(1, pid, q, StoreAttributes(object))
    \/ SdkDataSize(1)
    \/ \E offset \in Offsets, length \in Lengths, storeOk \in BOOLEAN :
          SdkReadBytes(1, offset, length, storeOk)
    \/ \E out \in CallOutcomes(LifePayloads) : S3Return(1, out)

ReaderSpec == ScanInit /\ [][ReaderNext]_vars

\* The identifier specification: /scan requests handled at the same time on
\* every connection, for either file name, while the clock advances.
IdRequests ==
    {q \in OptionRequests :
        /\ q.scanMethod = "" /\ q.filePath = ""
        /\ q.digestEnabled = "" /\ q.pmlEnabled = "" /\ q.spnFeedbackEnabled = ""
        /\ q.verboseEnabled = "" /\ q.activeContentEnabled = ""}

IdNext ==
    \/ \E pid \in Pids, logOk \in BOOLEAN, sdkOk \in BOOLEAN : Main(pid, logOk, sdkOk)
    \/ Tick
    \/ \E r \in Slots, pid \in Pids, q \in IdRequests : ScanReceive(r, pid, q)
    \/ \E r \in Slots : ScanCall(r)
    \/ \E r \in Slots, out \in CallOutcomes(LifePayloads) : ScanReturn(r, out)

IdSpec == ScanInit /\ [][IdNext]_vars

\* The restart specification: every container environment and every saved
\* setting, with a log file that opens and an SDK that constructs its
\* client. The handler of POST /api/config runs its steps to the end and
\* the operating system runs the process it spawned.
StartScanner == \E pid \in Pids : Main(pid, TRUE, TRUE)

RestartNext ==
    \/ StartScanner
    \/ \E addr \in ExternalAddrs, tls \in BOOLEAN : ApplyConfig(addr, tls)
    \/ ApplyKill
    \/ ApplySpawn
    \/ ApplyWait

RestartSpec ==
    /\ Init
    /\ [][RestartNext]_vars
    /\ WF_vars(StartScanner)
    /\ WF_vars(ApplyKill)
    /\ WF_vars(ApplySpawn)
    /\ WF_vars(ApplyWait)

\* The connection-test specification: a service with credentials, its
\* reconfigurations between the modes, and connection tests against every
\* kind of remote. The timers of the Node.js event loop fire, so a started
\* test keeps taking its steps.
ProbeNext ==
    \/ \E pid \in Pids, logOk \in BOOLEAN, sdkOk \in BOOLEAN : Main(pid, logOk, sdkOk)
    \/ \E addr \in ExternalAddrs : ApplyConfig(addr, FALSE)
    \/ ApplyKill
    \/ ApplySpawn
    \/ ApplyWait
    \/ \E addr \in ProbeAddrs, tls \in BOOLEAN, remote \in Remotes :
          TestScanner(addr, tls, remote)
    \/ ProbeObserve
    \/ ProbeTick
    \/ ProbeExpire
    \/ ProbeAbandon

ProbeSpec == ScanInit /\ [][ProbeNext]_vars /\ WF_vars(ProbeProgress)


\* ------------------------------------------------------------- properties
\* the names an array of a payload carries
NamesIn(list) == {Get(list[i].name) : i \in {j \in 1..Len(list) : list[j].name # None}}

\* the names of the malware_name tags of a /scan response
ResponseNames(resp) ==
    {resp.tags[i][2] : i \in {j \in 1..Len(resp.tags) : resp.tags[j][1] = "malware_name"}}

\* the /scan requests that were answered with a ScanResponse
Answered == {r \in Slots : reqs[r].kind = "scan" /\ reqs[r].pc = "done"
                           /\ IsSome(reqs[r].ret) /\ ~Get(reqs[r].ret).err}

PayloadOf(r) == Get(reqs[r].ret).scanResult
ResponseOf(r) == Get(reqs[r].resp)

CountPositive(p) ==
    /\ p.parses /\ p.atse # None
    /\ Get(p.atse).malwareCount # None
    /\ Get(Get(p.atse).malwareCount) >= 1

NestedNameSet(p) ==
    IF p.atse # None /\ Get(p.atse).malware # None
    THEN NamesIn(Get(Get(p.atse).malware)) ELSE {}

FoundNonEmpty(p) == p.parses /\ p.foundMalwares # None /\ Get(p.foundMalwares) # <<>>

FoundNameSet(p) == IF p.foundMalwares # None THEN NamesIn(Get(p.foundMalwares)) ELSE {}

\* C1: normalization of a raw payload: a nested malware count above zero
\* together with a non-empty legacy found-list gives safe=false and the union
\* of the names of both paths; the found-list is still checked when the nested
\* path does not indicate malware; a payload of neither shape gives safe=true
\* and no malware names.
C1_NormalizerUnion ==
    \A r \in Answered :
        LET p == PayloadOf(r)
            resp == ResponseOf(r)
        IN  /\ (CountPositive(p) /\ FoundNonEmpty(p)) =>
                  /\ resp.isSafe = FALSE
                  /\ ResponseNames(resp) = NestedNameSet(p) \cup FoundNameSet(p)
            /\ (~CountPositive(p) /\ FoundNonEmpty(p)) =>
                  /\ resp.isSafe = FALSE
                  /\ FoundNameSet(p) \subseteq ResponseNames(resp)
            /\ (p.parses /\ p.atse = None /\ p.foundMalwares = None) =>
                  /\ resp.isSafe = TRUE
                  /\ ResponseNames(resp) = {}

\* a payload flagged by both paths, each path contributing its own name
C1_Witness ==
    \E r \in Answered :
        /\ CountPositive(PayloadOf(r)) /\ FoundNonEmpty(PayloadOf(r))
        /\ NestedNameSet(PayloadOf(r)) = {"EICAR"}
        /\ FoundNameSet(PayloadOf(r)) = {"Trojan"}
        /\ ResponseOf(r).isSafe = FALSE
        /\ ResponseNames(ResponseOf(r)) = {"EICAR", "Trojan"}

\* C2: in every /scan response malware names are present only if the verdict
\* is unsafe: no response carries isSafe=true with a malware_name tag.
C2_NamesOnlyIfUnsafe ==
    \A r \in Answered : ResponseOf(r).isSafe => ResponseNames(ResponseOf(r)) = {}

\* the requests whose content provider could not be built or whose backend
\* scan call failed
ScanFailed ==
    {r \in Slots :
        /\ reqs[r].pc = "done"
        /\ \/ IsSome(reqs[r].ret) /\ Get(reqs[r].ret).err
           \/ /\ reqs[r].kind = "s3" /\ IsSome(reqs[r].attr)
              /\ (Get(reqs[r].attr).err \/ Get(reqs[r].attr).ObjectSize = None)}

\* C3: when building the content provider fails or the backend scan call
\* fails, the caller gets a scan failure (HTTP 500) and no verdict: no failure
\* path answers with a result.
C3_FailureGivesNoVerdict ==
    \A r \in ScanFailed :
        /\ ResponseOf(r).status = 500
        /\ DOMAIN ResponseOf(r) = {"status", "error"}

\* a /scan whose backend call failed and an /s3/scan whose reader failed
C3_Witness ==
    \E r \in ScanFailed :
        /\ reqs[r].kind = "scan"
        /\ Get(reqs[r].ret).err
        /\ ResponseOf(r) = HttpError(500, "Scanning failed")

\* C4: a backend payload that does not parse is no error: the scan answers
\* 200 with safe=true, no malware names, and the raw payload unchanged.
C4_UnparsedIsSafe ==
    \A r \in Answered :
        ~PayloadOf(r).parses =>
            /\ ResponseOf(r).status = 200
            /\ ResponseOf(r).isSafe = TRUE
            /\ ResponseNames(ResponseOf(r)) = {}
            /\ ResponseOf(r).message = PayloadOf(r)
            /\ ResponseOf(r).detections = PayloadOf(r)

C4_Witness ==
    \E r \in Answered :
        /\ ~PayloadOf(r).parses
        /\ PayloadOf(r).raw = "<html>"
        /\ ResponseOf(r).isSafe = TRUE
        /\ ResponseOf(r).message.raw = "<html>"


\* the processes that got past the creation of their client
Born == {pid \in Pids : procs[pid].state # "unborn"}

Unconfigured(pid) ==
    /\ pid \in Born
    /\ procs[pid].env.SCANNER_EXTERNAL_ADDR = ""
    /\ procs[pid].env.FSS_API_KEY = ""

\* C6: with an empty external address and an empty cloud credential the
\* process ends fatally: it creates no session, never serves, and answers no
\* scan or health request.
C6_MissingCredentialIsFatal ==
    \A pid \in Pids :
        Unconfigured(pid) =>
            /\ procs[pid].client = None
            /\ procs[pid].state \in {"starting", "exited", "killed"}
            /\ \A r \in Slots : reqs[r].pid # pid

C6_Witness ==
    \E pid \in Pids : Unconfigured(pid) /\ procs[pid].state = "exited"

\* the process the last restart replaced held an active session
ReplacedActive ==
    /\ LastPid > 1
    /\ procs[LastPid - 1].state = "killed"
    /\ IsSome(procs[LastPid - 1].client)

\* the restart under way has killed a process that held an active session
KilledActive ==
    /\ applyPc = "spawn"
    /\ procs[LastPid].state = "killed"
    /\ IsSome(procs[LastPid].client)

\* C7: after a failed apply (the process the restart spawned ended fatally)
\* the previously active session is still active and the one scans observe.
C7_FailedApplyKeepsSession ==
    (ReplacedActive /\ applyPc = "idle" /\ procs[LastPid].state = "exited")
        => ActiveSessions = {LastPid - 1}

\* C8 as stated: while an apply is between its start and its end, some
\* backend session is active.
C8_NoWindowWithoutSession ==
    (KilledActive \/ (ReplacedActive /\ applyPc = "wait")) => ActiveSessions # {}

\* C8 as amended: the old session is discarded before the new one is
\* constructed: once the restart has killed the scanner no session is active
\* until the spawned process has built its client, and a process is only ever
\* starting when every earlier process has ended.
C8_DiscardBeforeConstruct ==
    /\ applyPc = "spawn" => \A pid \in Pids : ~Alive(procs[pid])
    /\ \A pid \in Pids :
          procs[pid].state = "starting" =>
              /\ ActiveSessions = {}
              /\ \A q \in Pids : q < pid => ~Alive(procs[q])

\* the old session is gone and the new process is not spawned yet
C8_Witness ==
    /\ KilledActive
    /\ ActiveSessions = {}

\* no step changes the backend of a session that exists
SessionsNotRewritten ==
    \A pid \in Pids :
        IsSome(procs[pid].client) =>
            /\ IsSome(procs'[pid].client)
            /\ BackendOf(Get(procs'[pid].client)) = BackendOf(Get(procs[pid].client))

\* C9: at most one backend session is active in every reachable state, and a
\* reconfiguration puts a new session in place of the active one and never
\* changes the fields of an existing session.
C9_OneSessionReplacedNotMutated ==
    /\ [](Cardinality(ActiveSessions) <= 1)
    /\ [][SessionsNotRewritten]_vars

\* a second session serves for another backend while the first, ended,
\* still names its own
C9_Witness ==
    \E pid \in Pids :
        /\ pid > 1
        /\ procs[pid].state = "serving"
        /\ procs[pid - 1].state = "killed"
        /\ IsSome(procs[pid - 1].client)
        /\ BackendOf(Get(procs[pid].client)) # BackendOf(Get(procs[pid - 1].client))

\* C10: a scan in flight against the old session when the swap happens is
\* not aborted or lost.
C10_InFlightScanSurvivesSwap ==
    \A r \in Slots : ~(reqs[r].pc = "aborted" /\ IsSome(reqs[r].sent))

\* The toggles a request selects with its own headers (digest is on unless
\* the header says "false"; the others are on when the header says "true").
OwnToggles(q) ==
    [digest |-> q.digestEnabled # "false",
     pml |-> q.pmlEnabled = "true",
     feedback |-> q.spnFeedbackEnabled = "true",
     verbose |-> q.verboseEnabled = "true",
     activeContent |-> q.activeContentEnabled = "true"]

\* The toggles of the session a backend call was made with.
SessionToggles(c) ==
    [digest |-> c.digest, pml |-> c.pml, feedback |-> c.feedback,
     verbose |-> c.verbose, activeContent |-> c.activeContent]

\* C11: the toggles in effect for the backend call of a /scan request are
\* exactly those its own headers select, whatever earlier requests on the
\* same session selected.
C11_TogglesAreTheRequestsOwn ==
    \A r \in Slots :
        (reqs[r].kind = "scan" /\ IsSome(reqs[r].sent)) =>
            SessionToggles(Get(reqs[r].sent).session) = OwnToggles(Get(reqs[r].req))

\* C12: a scan request makes at most one backend scan call; when that call
\* fails the request ends with the 500 and the call is not made again.
C12_AtMostOneBackendCall ==
    \A r \in Slots :
        /\ reqs[r].calls <= 1
        /\ (IsSome(reqs[r].ret) /\ Get(reqs[r].ret).err) =>
              /\ reqs[r].pc = "done"
              /\ reqs[r].calls = 1
              /\ Get(reqs[r].resp).status = 500

C12_Witness ==
    \E r \in Slots :
        /\ reqs[r].kind \in {"scan", "s3"}
        /\ IsSome(reqs[r].ret) /\ Get(reqs[r].ret).err
        /\ reqs[r].calls = 1
        /\ Get(reqs[r].resp).status = 500

\* The tags the caller supplied for a request: the custom tags of the
\* deployment for /scan, the tags of the request body for /s3/scan.
CallerTags(r) ==
    IF reqs[r].kind = "scan" THEN procs[reqs[r].pid].customTags
    ELSE IF IsSome(Get(reqs[r].req).tags) THEN Get(Get(reqs[r].req).tags)
    ELSE <<>>

\* the last n elements of a sequence
Suffix(seq, n) == SubSeq(seq, Len(seq) - n + 1, Len(seq))

\* C13: in the tag list of every backend call the caller-supplied tags are
\* the tail of the list, after every tag the handler derived.
C13_MachineTagsFirst ==
    \A r \in Slots :
        IsSome(reqs[r].sent) =>
            LET tags == Get(reqs[r].sent).tags
                supplied == CallerTags(r)
            IN  /\ Len(supplied) <= Len(tags)
                /\ Suffix(tags, Len(supplied)) = supplied

\* the tags the handler derived: the list without the caller-supplied ones
DerivedTags(r) ==
    LET tags == Get(reqs[r].sent).tags
    IN  {tags[i] : i \in {j \in 1..Len(tags) :
                             \A k \in 1..Len(CallerTags(r)) : tags[j] # CallerTags(r)[k]}}

\* the derived tags that give the state of a toggle: those that name neither
\* the application, nor the file extension, nor the scan method
ToggleTags(r) ==
    {t \in DerivedTags(r) : t[1] \notin {"app", "file_type", "scan_method"}}

\* C14: the tag list of every backend call holds a file-extension tag, a
\* scan-method tag and one tag for each of the five toggles.
C14_TagsDescribeTheScan ==
    \A r \in Slots :
        IsSome(reqs[r].sent) =>
            /\ \E t \in DerivedTags(r) : t[1] = "file_type"
            /\ \E t \in DerivedTags(r) : t[1] = "scan_method"
            /\ Cardinality(ToggleTags(r)) = 5

\* the scan requests that were answered with a result
Succeeded == {r \in Slots : /\ reqs[r].kind \in {"scan", "s3"}
                            /\ IsSome(reqs[r].resp)
                            /\ Get(reqs[r].resp).status = 200}

\* C15: every scan answered with a result has the one identifier generated
\* for it, and the result carries that identifier as its scanId.
C15_ResultCarriesIdentifier ==
    \A r \in Succeeded :
        /\ IsSome(reqs[r].identifier)
        /\ "scanId" \in DOMAIN Get(reqs[r].resp)
        /\ Get(reqs[r].resp).scanId = Get(reqs[r].identifier)

\* the /scan requests for which a backend call was made
Called == {r \in Slots : reqs[r].kind = "scan" /\ IsSome(reqs[r].sent)}

\* C16 (as stated): the method flag selects the method of the one backend
\* call: the file method when the flag says file, the buffer method when it
\* is unset.
C16_FlagSelectsMethod ==
    \A r \in Called :
        LET q == Get(reqs[r].req)
        IN  /\ reqs[r].calls = 1
            /\ (q.scanMethod = "file") = (Get(reqs[r].sent).call = "ScanFile")
            /\ (q.scanMethod = "") => Get(reqs[r].sent).call = "ScanBuffer"

\* C16 (amended): one backend call is made; it is the file method exactly
\* when the flag says file and a file path is given, and the buffer method
\* in every other case, in particular whenever the flag is unset.
C16_FlagAndPathSelectMethod ==
    \A r \in Called :
        LET q == Get(reqs[r].req)
        IN  /\ reqs[r].calls = 1
            /\ Get(reqs[r].sent).call \in {"ScanFile", "ScanBuffer"}
            /\ (q.scanMethod = "file" /\ q.filePath # "") =
                   (Get(reqs[r].sent).call = "ScanFile")
            /\ (q.scanMethod = "") => Get(reqs[r].sent).call = "ScanBuffer"

C16_Witness ==
    \E r \in Called :
        /\ Get(reqs[r].req).scanMethod = "file"
        /\ Get(reqs[r].req).filePath = ""
        /\ Get(reqs[r].sent).call = "ScanBuffer"

\* the requests the handlers have finished looking at
Examined == {r \in Slots : /\ reqs[r].kind \in {"scan", "s3"}
                           /\ reqs[r].pc # "received"}

\* C17: a request with the wrong HTTP method, a /scan request whose body
\* cannot be read when the handler reads it, and a /s3/scan request whose
\* body cannot be decoded are answered 405 or 400 and no backend call is
\* made for them.
C17_MalformedIsRejectedUnscanned ==
    \A r \in Examined :
        LET q == Get(reqs[r].req)
            malformed ==
                \/ q.method # "POST"
                \/ reqs[r].kind = "scan" /\ ~UsesFile(q) /\ ~q.bodyOk
                \/ reqs[r].kind = "s3" /\ ~q.bodyOk
            rejected ==
                /\ IsSome(reqs[r].resp)
                /\ Get(reqs[r].resp).status \in {400, 405}
        IN  /\ malformed => rejected
            /\ rejected => (reqs[r].calls = 0 /\ ~IsSome(reqs[r].sent)
                               /\ ~IsSome(reqs[r].attr))

C17_Witness ==
    \E r \in Examined :
        /\ reqs[r].kind = "scan"
        /\ Get(reqs[r].req).method = "POST" /\ ~Get(reqs[r].req).bodyOk
        /\ Get(reqs[r].resp).status = 400
        /\ reqs[r].calls = 0

\* C18: no step of a connection test changes the scanner processes, their
\* sessions, the stored configuration or the restart in progress; and once a
\* test has ended, however it ended, its temporary session is gone.
C18_ProbeLeavesSessionAlone ==
    /\ [][probe' # probe =>
             /\ procs' = procs
             /\ systemConfig' = systemConfig
             /\ applyPc' = applyPc]_vars
    /\ [](probe.pc # "probing" => ~IsSome(probe.session))

\* a test of another address than the active one has ended, and the active
\* session is still the one built from the stored configuration
C18_Witness ==
    /\ probe.pc = "done"
    /\ IsSome(probe.result)
    /\ \E pid \in ActiveSessions :
          /\ Get(procs[pid].client).mode = "Cloud"
          /\ Get(probe.candidate).externalScannerAddr = "10.10.21.201:50051"
          /\ systemConfig.externalScannerAddr = ""

TimeoutDetail == <<"Connection timeout after 5 seconds">>
RefusalDetail == <<"Connection error: connection refused">>

\* a test of a remote that never answered has ended with a response
SilentDone ==
    /\ probe.pc = "done"
    /\ probe.remote = "silent"
    /\ IsSome(probe.result)

\* C19: every started connection test ends, with its test session cleaned
\* up; when the remote never answers, it ends once the budget is used up,
\* with success=false and the timeout message.
C19_ProbeTerminates ==
    /\ (probe.pc = "probing") ~> (probe.pc = "done" /\ ~IsSome(probe.session))
    /\ [](SilentDone =>
             /\ ~Get(probe.result).success
             /\ Get(probe.result).message = TimeoutDetail
             /\ probe.elapsed = ProbeTimeout)

C19_Witness ==
    /\ SilentDone
    /\ Get(probe.result).message = TimeoutDetail
    /\ ~IsSome(probe.session)

\* a test of a well-formed address has ended with a response
Probed ==
    /\ probe.pc = "done"
    /\ probe.remote # "none"
    /\ IsSome(probe.result)

HealthAnswered == {r \in Slots : reqs[r].kind = "health" /\ IsSome(reqs[r].resp)}

\* C21: a health response says unhealthy exactly when the process that gave
\* it has no client, and healthy otherwise; a process that serves always has
\* one.
C21_HealthReportsSession ==
    /\ \A r \in HealthAnswered :
          /\ Get(reqs[r].resp).status \in {"healthy", "unhealthy"}
          /\ (Get(reqs[r].resp).status = "unhealthy") =
                 ~IsSome(procs[reqs[r].pid].client)
    /\ \A pid \in ActiveSessions : IsSome(procs[pid].client)

C21_Witness ==
    \E r \in HealthAnswered :
        /\ Get(reqs[r].resp).status = "healthy"
        /\ IsSome(procs[reqs[r].pid].client)
        /\ reqs[r].pid \in ActiveSessions

\* the streaming scans whose reader was constructed
Streaming == {r \in Slots : reqs[r].kind = "s3" /\ IsSome(reqs[r].sent)}

\* C22: every size the reader gives is the size the store reported when the
\* reader was constructed, whatever reads were made and however the object
\* changed since.
C22_SizeIsConstant ==
    \A r \in Streaming :
        IsSome(reqs[r].fetched.size) =>
            Get(reqs[r].fetched.size) = Get(Get(reqs[r].attr).ObjectSize)

\* a size given after a read, while the object no longer has that size
C22_Witness ==
    \E r \in Streaming :
        /\ IsSome(reqs[r].fetched.size)
        /\ IsSome(reqs[r].fetched.read)
        /\ Get(reqs[r].fetched.size) # Len(object)

\* the reads the SDK made that the store answered
ReadsAnswered ==
    {r \in Streaming : /\ IsSome(reqs[r].fetched.read)
                       /\ Get(reqs[r].fetched.read).storeOk}

\* the bytes of obj at [offset, offset + length)
Window(obj, offset, length) == SubSeq(obj, offset + 1, offset + length)

\* C23: a read the store answers returns, for a range wholly inside the
\* object, exactly the length bytes of that range, and for a range that
\* starts inside the object and ends past it, the remainder of the object
\* without an error.
C23_ReadRangeReturnsTheRange ==
    [][\A r \in Slots :
          (/\ reqs'[r].kind = "s3"
           /\ IsSome(reqs'[r].fetched.read)
           /\ reqs'[r].fetched.read # reqs[r].fetched.read
           /\ Get(reqs'[r].fetched.read).storeOk) =>
             LET read == Get(reqs'[r].fetched.read)
             IN  /\ read.offset + read.length <= Len(object) =>
                      /\ ~read.out.err
                      /\ Len(read.out.bytes) = read.length
                      /\ read.out.bytes = Window(object, read.offset, read.length)
                 /\ (read.offset < Len(object)
                        /\ read.offset + read.length > Len(object)) =>
                      /\ ~read.out.err
                      /\ read.out.bytes =
                            Window(object, read.offset, Len(object) - read.offset)]_vars

\* a read past the end of the object that returned the remainder
C23_Witness ==
    \E r \in ReadsAnswered :
        LET read == Get(reqs[r].fetched.read)
        IN  /\ read.offset < Len(object)
            /\ read.offset + read.length > Len(object)
            /\ ~read.out.err
            /\ Len(read.out.bytes) = Len(object) - read.offset
            /\ Len(read.out.bytes) >= 1

Configured ==
    CreateClient([containerEnv EXCEPT
                     !.SCANNER_EXTERNAL_ADDR = systemConfig.externalScannerAddr,
                     !.SCANNER_USE_TLS = IF systemConfig.externalScannerTLS
                                         THEN "true" ELSE "false"], TRUE)

\* the process serving has a session built from the stored settings
ActiveMatchesConfig ==
    /\ ~Configured.fatal
    /\ \E pid \in ActiveSessions :
          BackendOf(Get(procs[pid].client)) = BackendOf(Get(Configured.client))

StreamingSucceeded == {r \in Succeeded : reqs[r].kind = "s3"}

\* C26: the result of a successful streaming scan carries a verdict, and
\* the verdict is unsafe whenever the payload the backend returned reports
\* malware.
C26_StreamingResultIsNormalized ==
    \A r \in StreamingSucceeded :
        LET resp == Get(reqs[r].resp)
            out == Get(reqs[r].ret)
        IN  /\ "isSafe" \in DOMAIN resp
            /\ resp.isSafe = ParseScanResult(out.scanResult, reqs[r].tags).isSafe

\* C27: the backend call of a /scan request that does not carry
\* X-Digest-Enabled: false is made with digest calculation enabled.
C27_DigestOnUnlessDisabled ==
    \A r \in Called :
        Get(reqs[r].req).digestEnabled # "false" => Get(reqs[r].sent).session.digest

\* C28: two scan requests never have the same identifier.
C28_IdentifiersAreDistinct ==
    \A r1 \in Slots, r2 \in Slots :
        (/\ r1 # r2
         /\ IsSome(reqs[r1].identifier)
         /\ IsSome(reqs[r2].identifier)) =>
            Get(reqs[r1].identifier) # Get(reqs[r2].identifier)

\* the value of the scan_method tag in a tag list
ScanMethodTag(tags) ==
    LET i == CHOOSE j \in 1..Len(tags) : tags[j][1] = "scan_method"
    IN  tags[i][2]

\* the method a backend call used, as the tag names methods
MethodUsed(call) == IF call = "ScanFile" THEN "file" ELSE "buffer"

\* C29: the scan_method tag passed to the backend, and the one in the
\* response, name the method the backend call used.
C29_MethodTagNamesMethodUsed ==
    \A r \in Called :
        /\ ScanMethodTag(Get(reqs[r].sent).tags) = MethodUsed(Get(reqs[r].sent).call)
        /\ (r \in Succeeded) =>
              ScanMethodTag(Get(reqs[r].resp).tags) = MethodUsed(Get(reqs[r].sent).call)

====
